---- MODULE Spec2Model ----
(***************************************************************************)
(* ucsc_apis/admin/timezone.py: timezone and NTP server administration of  *)
(* UCS Central through a caller-supplied UcscHandle.                        *)
(*                                                                         *)
(* The remote configuration tree is a function from DNs to managed         *)
(* objects.  The handle keeps a change set (to_commit) that commit()       *)
(* applies to the tree in one transaction.  Every handle call may raise;   *)
(* which call raises during an operation is an input of the operation.     *)
(* Each function of the module is one action: the whole call, from its     *)
(* first handle call to its return or raise.  The calls are synchronous    *)
(* and single-threaded: the caller takes the outcome of one call (Returned) *)
(* before it makes the next.                                                *)
(***************************************************************************)
EXTENDS Naturals, Sequences, FiniteSets, TLC

VARIABLES remote, history, last

vars == <<remote, history, last>>

(***************************************************************************)
(* Bounds of the model.                                                     *)
(***************************************************************************)
NumNames == 2
NumTimezones == 2

NameUniverse == <<"72.163.128.140", "10.0.0.1", "ntp.example.com">>
TimezoneUniverse == <<"", "Asia/Kolkata", "UTC">>

Names == {NameUniverse[i] : i \in 1..NumNames}
Timezones == {TimezoneUniverse[i] : i \in 1..NumTimezones}

(***************************************************************************)
(* Python's None as a query result, and as the value of an unset property.  *)
(***************************************************************************)
None == [class |-> "NoneType"]
Unset == "None"

Descrs == {Unset, "Default NTP", "Backup NTP"}

(***************************************************************************)
(* DNs.                                                                     *)
(***************************************************************************)
get_device_profile_dn(name) == "org-root/deviceprofile-" \o name
ucsc_base_dn == get_device_profile_dn("default")

DateTimeDn == ucsc_base_dn \o "/datetime-svc"
NtpDn(name) == ucsc_base_dn \o "/datetime-svc/ntp-" \o name
AllDns == {DateTimeDn} \cup {NtpDn(n) : n \in Names}

(***************************************************************************)
(* Managed objects.                                                         *)
(***************************************************************************)
CommDateTime(timezone, admin_state, port, policy_owner) ==
    [class |-> "CommDateTime", dn |-> DateTimeDn, timezone |-> timezone,
     admin_state |-> admin_state, port |-> port, policy_owner |-> policy_owner]

CommNtpProvider(parent_mo_or_dn, name, descr) ==
    [class |-> "CommNtpProvider", dn |-> parent_mo_or_dn \o "/ntp-" \o name,
     name |-> name, descr |-> descr, policy_owner |-> Unset]

set_prop_multiple(mo, kwargs) ==
    [p \in DOMAIN mo |-> IF p \in DOMAIN kwargs THEN kwargs[p] ELSE mo[p]]

check_prop_match(mo, kwargs) ==
    \A p \in DOMAIN kwargs : p \in DOMAIN mo /\ mo[p] = kwargs[p]

(***************************************************************************)
(* The keyword arguments the operations are called with.  Python rejects   *)
(* a keyword that repeats a named parameter, so timezone is no key of      *)
(* time_zone_set's kwargs and name and descr are no keys of                 *)
(* ntp_server_add's.                                                        *)
(***************************************************************************)
Empty == [p \in {} |-> Unset]

DateTimeKwargs ==
    {Empty,
     "admin_state" :> "disabled",
     "port" :> "123",
     "policy_owner" :> "local",
     ("admin_state" :> "disabled") @@ ("policy_owner" :> "local")}

NtpAddKwargs == {Empty, "policy_owner" :> "local"}

NtpExistsKwargs ==
    {Empty,
     "descr" :> "Default NTP",
     "policy_owner" :> "local",
     ("descr" :> "Default NTP") @@ ("policy_owner" :> "local")}

(***************************************************************************)
(* The session handle.                                                      *)
(***************************************************************************)
NoChange == [status |-> "none"]

NewHandle(tree, fail) ==
    [remote |-> tree, to_commit |-> [dn \in AllDns |-> NoChange],
     calls |-> << >>, fail |-> fail]

Log(handle, fn, arg) ==
    [handle EXCEPT !.calls = Append(@, [fn |-> fn, arg |-> arg])]

Return(handle, value) == [handle |-> handle, raised |-> "none", ret |-> value]
Raise(handle, error) == [handle |-> handle, raised |-> error, ret |-> None]

query_dn(handle, dn) ==
    LET h == Log(handle, "query_dn", dn)
    IN  IF handle.fail = "query_dn" THEN Raise(h, "HandleError")
        ELSE Return(h, IF dn \in AllDns THEN handle.remote[dn] ELSE None)

set_mo(handle, mo) ==
    LET h == Log(handle, "set_mo", mo)
    IN  IF handle.fail = "set_mo" THEN Raise(h, "HandleError")
        ELSE Return([h EXCEPT !.to_commit[mo.dn] =
                                  [status |-> "modified", mo |-> mo]], None)

add_mo(handle, mo, modify_present) ==
    LET h == Log(handle, "add_mo", mo)
    IN  IF handle.fail = "add_mo" THEN Raise(h, "HandleError")
        ELSE Return([h EXCEPT !.to_commit[mo.dn] =
                                  [status |-> IF modify_present
                                              THEN "created,modified"
                                              ELSE "created",
                                   mo |-> mo]], None)

remove_mo(handle, mo) ==
    LET h == Log(handle, "remove_mo", mo)
    IN  IF handle.fail = "remove_mo" THEN Raise(h, "HandleError")
        ELSE Return([h EXCEPT !.to_commit[mo.dn] =
                                  [status |-> "deleted", mo |-> mo]], None)

(***************************************************************************)
(* The remote manager takes a change set as one transaction: it rejects    *)
(* the change of an object that does not exist, the creation without       *)
(* replacement of one that does, and a provider without its parent.        *)
(***************************************************************************)
Accepts(tree, dn, change) ==
    CASE change.status = "none" -> TRUE
      [] change.status = "modified" -> tree[dn] # None
      [] change.status = "deleted" -> tree[dn] # None
      [] change.status = "created" ->
            /\ tree[dn] = None
            /\ dn # DateTimeDn => tree[DateTimeDn] # None
      [] change.status = "created,modified" ->
            dn # DateTimeDn => tree[DateTimeDn] # None

Applied(tree, to_commit) ==
    [dn \in AllDns |->
        CASE to_commit[dn].status = "none" -> tree[dn]
          [] to_commit[dn].status = "deleted" -> None
          [] OTHER -> to_commit[dn].mo]

commit(handle) ==
    LET h == Log(handle, "commit", "")
        discarded == [h EXCEPT !.to_commit = [dn \in AllDns |-> NoChange]]
    IN  IF \/ handle.fail = "commit"
           \/ \E dn \in AllDns : ~Accepts(handle.remote, dn, handle.to_commit[dn])
        THEN Raise(discarded, "HandleError")
        ELSE Return([discarded EXCEPT
                        !.remote = Applied(handle.remote, handle.to_commit)],
                    None)

(***************************************************************************)
(* The functions of the module.                                             *)
(***************************************************************************)
(***************************************************************************)
(* Variants of time_zone_set with a slip in them, for the checks below:    *)
(* one that leaves admin_state as it finds it, one that creates the        *)
(* DateTimeService when it is missing, one that commits a second time      *)
(* when the commit fails.                                                   *)
(***************************************************************************)
time_zone_set_unforced(handle, timezone, kwargs) ==
    LET q == query_dn(handle, ucsc_base_dn \o "/datetime-svc")
        mo == set_prop_multiple([q.ret EXCEPT !.timezone = timezone,
                                              !.port = "0"], kwargs)
        s == set_mo(q.handle, mo)
        c == commit(s.handle)
    IN  IF q.raised # "none" THEN q
        ELSE IF q.ret = None
             THEN Raise(q.handle, "UcscOperationError")
        ELSE IF s.raised # "none" THEN s
        ELSE IF c.raised # "none" THEN c
        ELSE Return(c.handle, mo)

time_zone_set_upsert(handle, timezone, kwargs) ==
    LET q == query_dn(handle, ucsc_base_dn \o "/datetime-svc")
        found == IF q.ret = None
                 THEN CommDateTime("", "disabled", "0", Unset)
                 ELSE q.ret
        mo == set_prop_multiple([found EXCEPT !.timezone = timezone,
                                              !.admin_state = "enabled",
                                              !.port = "0"], kwargs)
        s == add_mo(q.handle, mo, TRUE)
        c == commit(s.handle)
    IN  IF q.raised # "none" THEN q
        ELSE IF s.raised # "none" THEN s
        ELSE IF c.raised # "none" THEN c
        ELSE Return(c.handle, mo)

time_zone_set_retry(handle, timezone, kwargs) ==
    LET q == query_dn(handle, ucsc_base_dn \o "/datetime-svc")
        mo == set_prop_multiple([q.ret EXCEPT !.timezone = timezone,
                                              !.admin_state = "enabled",
                                              !.port = "0"], kwargs)
        s == set_mo(q.handle, mo)
        c == commit(s.handle)
        again == commit(c.handle)
    IN  IF q.raised # "none" THEN q
        ELSE IF q.ret = None
             THEN Raise(q.handle, "UcscOperationError")
        ELSE IF s.raised # "none" THEN s
        ELSE IF c.raised # "none" THEN again
        ELSE Return(c.handle, mo)

time_zone_set(handle, timezone, kwargs) ==
    LET q == query_dn(handle, ucsc_base_dn \o "/datetime-svc")
        mo == set_prop_multiple([q.ret EXCEPT !.timezone = timezone,
                                              !.admin_state = "enabled",
                                              !.port = "0"], kwargs)
        s == set_mo(q.handle, mo)
        c == commit(s.handle)
    IN  IF q.raised # "none" THEN q
        ELSE IF q.ret = None
             THEN Raise(q.handle, "UcscOperationError")
        ELSE IF s.raised # "none" THEN s
        ELSE IF c.raised # "none" THEN c
        ELSE Return(c.handle, mo)

(***************************************************************************)
(* Variants of ntp_server_add with a slip in them: one that adds without   *)
(* replacement, one that also enables the DateTimeService.                  *)
(***************************************************************************)
ntp_server_add_create_only(handle, name, descr, kwargs) ==
    LET mo == set_prop_multiple(
                  CommNtpProvider(ucsc_base_dn \o "/datetime-svc", name, descr),
                  kwargs)
        a == add_mo(handle, mo, FALSE)
        c == commit(a.handle)
    IN  IF a.raised # "none" THEN a
        ELSE IF c.raised # "none" THEN c
        ELSE Return(c.handle, mo)

ntp_server_add_enabling(handle, name, descr, kwargs) ==
    LET mo == set_prop_multiple(
                  CommNtpProvider(ucsc_base_dn \o "/datetime-svc", name, descr),
                  kwargs)
        q == query_dn(handle, ucsc_base_dn \o "/datetime-svc")
        s == IF q.ret = None THEN Return(q.handle, None)
             ELSE set_mo(q.handle, [q.ret EXCEPT !.admin_state = "enabled"])
        a == add_mo(s.handle, mo, TRUE)
        c == commit(a.handle)
    IN  IF q.raised # "none" THEN q
        ELSE IF s.raised # "none" THEN s
        ELSE IF a.raised # "none" THEN a
        ELSE IF c.raised # "none" THEN c
        ELSE Return(c.handle, mo)

ntp_server_add(handle, name, descr, kwargs) ==
    LET mo == set_prop_multiple(
                  CommNtpProvider(ucsc_base_dn \o "/datetime-svc", name, descr),
                  kwargs)
        a == add_mo(handle, mo, TRUE)
        c == commit(a.handle)
    IN  IF a.raised # "none" THEN a
        ELSE IF c.raised # "none" THEN c
        ELSE Return(c.handle, mo)

(***************************************************************************)
(* A variant of ntp_server_get that leaves the "ntp-" prefix out of the DN. *)
(***************************************************************************)
ntp_server_get_by_name(handle, name) ==
    query_dn(handle, ucsc_base_dn \o "/datetime-svc/" \o name)

ntp_server_get(handle, name) ==
    query_dn(handle, ucsc_base_dn \o "/datetime-svc/ntp-" \o name)

(***************************************************************************)
(* Variants of ntp_server_exists: one that returns the object it found     *)
(* whether or not the properties match, one that removes the object it     *)
(* found when the properties do not match.                                  *)
(***************************************************************************)
ntp_server_exists_keeps_mo(handle, name, kwargs) ==
    LET g == ntp_server_get(handle, name)
        mo_exists == check_prop_match(g.ret, kwargs)
    IN  IF g.raised # "none" THEN g
        ELSE IF g.ret = None THEN Return(g.handle, <<FALSE, None>>)
        ELSE Return(g.handle, <<mo_exists, g.ret>>)

ntp_server_exists_purging(handle, name, kwargs) ==
    LET g == ntp_server_get(handle, name)
        mo_exists == check_prop_match(g.ret, kwargs)
        r == remove_mo(g.handle, g.ret)
        c == commit(r.handle)
    IN  IF g.raised # "none" THEN g
        ELSE IF g.ret = None THEN Return(g.handle, <<FALSE, None>>)
        ELSE IF mo_exists THEN Return(g.handle, <<TRUE, g.ret>>)
        ELSE IF r.raised # "none" THEN r
        ELSE IF c.raised # "none" THEN c
        ELSE Return(c.handle, <<FALSE, None>>)

ntp_server_exists(handle, name, kwargs) ==
    LET g == ntp_server_get(handle, name)
        mo_exists == check_prop_match(g.ret, kwargs)
    IN  IF g.raised # "none" THEN g
        ELSE IF g.ret = None THEN Return(g.handle, <<FALSE, None>>)
        ELSE Return(g.handle, <<mo_exists, IF mo_exists THEN g.ret ELSE None>>)

(***************************************************************************)
(* Variants of ntp_server_remove: one that never commits the removal, one  *)
(* that returns quietly when there is nothing to remove.                    *)
(***************************************************************************)
ntp_server_remove_uncommitted(handle, name) ==
    LET g == ntp_server_get(handle, name)
        r == remove_mo(g.handle, g.ret)
    IN  IF g.raised # "none" THEN g
        ELSE IF g.ret = None
             THEN Raise(g.handle, "UcscOperationError")
        ELSE IF r.raised # "none" THEN r
        ELSE Return(r.handle, None)

ntp_server_remove_silent(handle, name) ==
    LET g == ntp_server_get(handle, name)
        r == remove_mo(g.handle, g.ret)
        c == commit(r.handle)
    IN  IF g.raised # "none" THEN g
        ELSE IF g.ret = None THEN Return(g.handle, None)
        ELSE IF r.raised # "none" THEN r
        ELSE IF c.raised # "none" THEN c
        ELSE Return(c.handle, None)

ntp_server_remove(handle, name) ==
    LET g == ntp_server_get(handle, name)
        r == remove_mo(g.handle, g.ret)
        c == commit(r.handle)
    IN  IF g.raised # "none" THEN g
        ELSE IF g.ret = None
             THEN Raise(g.handle, "UcscOperationError")
        ELSE IF r.raised # "none" THEN r
        ELSE IF c.raised # "none" THEN c
        ELSE Return(c.handle, None)

(***************************************************************************)
(* The state.  remote is the configuration tree of the fabric manager.     *)
(* history records, per name, the last change of its provider that was     *)
(* committed: "never" until an add commits, then "added" or "removed".     *)
(* last is the call of the module whose outcome the caller is holding:     *)
(* its arguments, the handle call that was set to raise, the handle calls  *)
(* made, the outcome, and the tree and history as they were at the call.   *)
(***************************************************************************)
Idle ==
    [op |-> "none", args |-> Empty, fail |-> "none", calls |-> << >>,
     raised |-> "none", ret |-> None, before |-> << >>, known |-> << >>]

Called(op, args, fail, out) ==
    [op |-> op, args |-> args, fail |-> fail, calls |-> out.handle.calls,
     raised |-> out.raised, ret |-> out.ret, before |-> remote,
     known |-> history]

InitialDateTime == {None, CommDateTime("UTC", "disabled", "123", Unset)}

Init ==
    /\ \E dt \in InitialDateTime :
          remote = [dn \in AllDns |-> IF dn = DateTimeDn THEN dt ELSE None]
    /\ history = [n \in Names |-> "never"]
    /\ last = Idle

TimeZoneSet ==
    /\ last = Idle
    /\ \E timezone \in Timezones, kwargs \in DateTimeKwargs,
          fail \in {"none", "query_dn", "set_mo", "commit"} :
          LET out == time_zone_set(NewHandle(remote, fail), timezone, kwargs)
          IN  /\ remote' = out.handle.remote
              /\ last' = Called("time_zone_set",
                                [timezone |-> timezone, kwargs |-> kwargs],
                                fail, out)
              /\ UNCHANGED history

NtpServerAdd ==
    /\ last = Idle
    /\ \E name \in Names, descr \in Descrs, kwargs \in NtpAddKwargs,
          fail \in {"none", "add_mo", "commit"} :
          LET out == ntp_server_add(NewHandle(remote, fail), name, descr, kwargs)
          IN  /\ remote' = out.handle.remote
              /\ last' = Called("ntp_server_add",
                                [name |-> name, descr |-> descr,
                                 kwargs |-> kwargs],
                                fail, out)
              /\ history' = IF out.raised = "none"
                            THEN [history EXCEPT ![name] = "added"]
                            ELSE history

NtpServerGet ==
    /\ last = Idle
    /\ \E name \in Names, fail \in {"none", "query_dn"} :
          LET out == ntp_server_get(NewHandle(remote, fail), name)
          IN  /\ remote' = out.handle.remote
              /\ last' = Called("ntp_server_get", [name |-> name], fail, out)
              /\ UNCHANGED history

NtpServerExists ==
    /\ last = Idle
    /\ \E name \in Names, kwargs \in NtpExistsKwargs,
          fail \in {"none", "query_dn"} :
          LET out == ntp_server_exists(NewHandle(remote, fail), name, kwargs)
          IN  /\ remote' = out.handle.remote
              /\ last' = Called("ntp_server_exists",
                                [name |-> name, kwargs |-> kwargs], fail, out)
              /\ UNCHANGED history

NtpServerRemove ==
    /\ last = Idle
    /\ \E name \in Names,
          fail \in {"none", "query_dn", "remove_mo", "commit"} :
          LET out == ntp_server_remove(NewHandle(remote, fail), name)
          IN  /\ remote' = out.handle.remote
              /\ last' = Called("ntp_server_remove", [name |-> name], fail, out)
              /\ history' = IF out.raised = "none"
                            THEN [history EXCEPT ![name] = "removed"]
                            ELSE history

Returned ==
    /\ last # Idle
    /\ last' = Idle
    /\ UNCHANGED <<remote, history>>

Next ==
    \/ TimeZoneSet
    \/ NtpServerAdd
    \/ NtpServerGet
    \/ NtpServerExists
    \/ NtpServerRemove
    \/ Returned

Spec == Init /\ [][Next]_vars

(***************************************************************************)
(* What the checks below read off a state.                                  *)
(***************************************************************************)
Count(fn) ==
    Cardinality({i \in 1..Len(last.calls) : last.calls[i].fn = fn})

Writes == Count("set_mo") + Count("add_mo") + Count("remove_mo")

Read(name) == ntp_server_get(NewHandle(remote, "none"), name).ret

Check(name, kwargs) ==
    ntp_server_exists(NewHandle(remote, "none"), name, kwargs).ret

Matches(mo, kwargs) == \A p \in DOMAIN kwargs : mo[p] = kwargs[p]

Forced(kwargs, prop, value) ==
    IF prop \in DOMAIN kwargs THEN kwargs[prop] ELSE value

(***************************************************************************)
(* C1, as stated: whatever the extra properties, a time_zone_set on an     *)
(* existing DateTimeService in which no handle call raises returns a       *)
(* record with the timezone given, admin_state "enabled" and port "0",     *)
(* after exactly one commit.                                                *)
(***************************************************************************)
C1_AnyKwargsForced ==
    (/\ last.op = "time_zone_set"
     /\ last.before[DateTimeDn] # None
     /\ last.raised # "HandleError")
    => /\ last.raised = "none"
       /\ last.ret.timezone = last.args.timezone
       /\ last.ret.admin_state = "enabled"
       /\ last.ret.port = "0"
       /\ Count("commit") = 1

(***************************************************************************)
(* C1, amended: a time_zone_set on an existing DateTimeService in which no *)
(* handle call raises returns a record with the timezone given, and with   *)
(* admin_state "enabled" and port "0" unless the extra properties name     *)
(* admin_state or port, whose entries then stand in the record; commit is  *)
(* called exactly once and the DateTimeService then is that record.        *)
(***************************************************************************)
C1_ForcedUnlessInKwargs ==
    (/\ last.op = "time_zone_set"
     /\ last.before[DateTimeDn] # None
     /\ last.raised # "HandleError")
    => /\ last.raised = "none"
       /\ last.ret.timezone = last.args.timezone
       /\ last.ret.admin_state
             = Forced(last.args.kwargs, "admin_state", "enabled")
       /\ last.ret.port = Forced(last.args.kwargs, "port", "0")
       /\ Matches(last.ret, last.args.kwargs)
       /\ Count("commit") = 1
       /\ remote[DateTimeDn] = last.ret

C1_Witness ==
    /\ last.op = "time_zone_set"
    /\ last.raised = "none"
    /\ last.args.timezone = ""
    /\ last.args.kwargs = "policy_owner" :> "local"
    /\ last.before[DateTimeDn].admin_state = "disabled"
    /\ last.before[DateTimeDn].port = "123"
    /\ last.ret.admin_state = "enabled"
    /\ last.ret.port = "0"

(***************************************************************************)
(* C2: a time_zone_set whose lookup of the DateTimeService returns None    *)
(* raises UcscOperationError having made that one query_dn and no set_mo,  *)
(* add_mo, remove_mo or commit, and the remote tree is as it was.           *)
(***************************************************************************)
C2_AbsentRaisesWithoutWrite ==
    (/\ last.op = "time_zone_set"
     /\ last.before[DateTimeDn] = None
     /\ last.fail # "query_dn")
    => /\ last.raised = "UcscOperationError"
       /\ last.calls = <<[fn |-> "query_dn", arg |-> DateTimeDn]>>
       /\ Writes = 0
       /\ Count("commit") = 0
       /\ remote = last.before

C2_Witness ==
    /\ last.op = "time_zone_set"
    /\ last.before[DateTimeDn] = None
    /\ last.fail = "commit"
    /\ last.raised = "UcscOperationError"

(***************************************************************************)
(* C3: ntp_server_get of a name no add has committed returns None; and     *)
(* right after an ntp_server_add of such a name has returned,              *)
(* ntp_server_get of it returns a record with that name, the description   *)
(* written and every extra property written.                                *)
(***************************************************************************)
C3_GetReflectsAdd ==
    /\ (/\ last.op = "ntp_server_get"
        /\ last.known[last.args.name] = "never"
        /\ last.raised # "HandleError")
       => last.raised = "none" /\ last.ret = None
    /\ (/\ last.op = "ntp_server_add"
        /\ last.known[last.args.name] = "never"
        /\ last.raised = "none")
       => /\ Read(last.args.name) # None
          /\ Read(last.args.name).name = last.args.name
          /\ Read(last.args.name).descr = last.args.descr
          /\ Matches(Read(last.args.name), last.args.kwargs)

C3_Witness ==
    /\ last.op = "ntp_server_add"
    /\ last.known[last.args.name] = "never"
    /\ last.raised = "none"
    /\ last.args.descr = "Default NTP"
    /\ last.args.kwargs = "policy_owner" :> "local"
    /\ last.before[NtpDn(last.args.name)] = None
    /\ Read(last.args.name).descr = "Default NTP"

(***************************************************************************)
(* C4: ntp_server_exists returns (FALSE, None) for a name no add has       *)
(* committed and for a name with no provider, (TRUE, the provider) when    *)
(* the provider matches every property given, and (FALSE, None) when some  *)
(* property given differs; its second component is a record exactly when   *)
(* its first is TRUE.                                                       *)
(***************************************************************************)
C4_ExistsResult ==
    (last.op = "ntp_server_exists" /\ last.raised # "HandleError")
    => LET mo == last.before[NtpDn(last.args.name)]
       IN  /\ last.raised = "none"
           /\ last.known[last.args.name] = "never" => last.ret = <<FALSE, None>>
           /\ mo = None => last.ret = <<FALSE, None>>
           /\ (mo # None /\ Matches(mo, last.args.kwargs))
                 => last.ret = <<TRUE, mo>>
           /\ (mo # None /\ ~Matches(mo, last.args.kwargs))
                 => last.ret = <<FALSE, None>>
           /\ (last.ret[2] # None) <=> (last.ret[1] = TRUE)

C4_Witness ==
    /\ last.op = "ntp_server_exists"
    /\ last.raised = "none"
    /\ last.args.kwargs
          = ("descr" :> "Default NTP") @@ ("policy_owner" :> "local")
    /\ last.before[NtpDn(last.args.name)] # None
    /\ last.before[NtpDn(last.args.name)].descr = "Default NTP"
    /\ last.before[NtpDn(last.args.name)].policy_owner # "local"
    /\ last.ret = <<FALSE, None>>

(***************************************************************************)
(* C5: from the return of an ntp_server_remove of a name until an add of   *)
(* that name commits, ntp_server_get of it returns None and                *)
(* ntp_server_exists of it returns (FALSE, None) whatever the properties.   *)
(***************************************************************************)
C5_RemovedStaysAbsent ==
    /\ \A n \in Names :
          history[n] = "removed"
          => /\ Read(n) = None
             /\ \A kwargs \in NtpExistsKwargs : Check(n, kwargs) = <<FALSE, None>>
    /\ (/\ last.op = "ntp_server_get"
        /\ last.known[last.args.name] = "removed"
        /\ last.raised # "HandleError")
       => last.ret = None
    /\ (/\ last.op = "ntp_server_exists"
        /\ last.known[last.args.name] = "removed"
        /\ last.raised # "HandleError")
       => last.ret = <<FALSE, None>>

C5_Witness ==
    /\ last.op = "ntp_server_exists"
    /\ last.known[last.args.name] = "removed"
    /\ last.args.kwargs = Empty
    /\ last.raised = "none"
    /\ last.ret = <<FALSE, None>>
    /\ \E n \in Names : history[n] = "added"

(***************************************************************************)
(* C6: an ntp_server_remove of a name with no provider, never added or     *)
(* removed since, raises UcscOperationError having made one query_dn and   *)
(* no remove_mo or commit, and the remote tree is as it was.                *)
(***************************************************************************)
C6_RemoveAbsentRaises ==
    (/\ last.op = "ntp_server_remove"
     /\ \/ last.known[last.args.name] \in {"never", "removed"}
        \/ last.before[NtpDn(last.args.name)] = None
     /\ last.fail # "query_dn")
    => /\ last.raised = "UcscOperationError"
       /\ last.calls = <<[fn |-> "query_dn", arg |-> NtpDn(last.args.name)]>>
       /\ Count("remove_mo") = 0
       /\ Count("commit") = 0
       /\ remote = last.before

C6_Witness ==
    /\ last.op = "ntp_server_remove"
    /\ last.known[last.args.name] = "removed"
    /\ last.raised = "UcscOperationError"
    /\ remote = last.before

(***************************************************************************)
(* C7: every provider of the tree sits at the DN its name determines, so   *)
(* no two providers share a name; and an ntp_server_add of a name that     *)
(* has a provider raises no error of its own, and when the handle accepts  *)
(* it the provider at that DN carries the name, the description and the    *)
(* extra properties of this add.                                            *)
(***************************************************************************)
C7_AddReplaces ==
    /\ \A dn \in AllDns \ {DateTimeDn} :
          remote[dn] # None
          => /\ remote[dn].class = "CommNtpProvider"
             /\ remote[dn].dn = dn
             /\ dn = NtpDn(remote[dn].name)
    /\ \A d1, d2 \in AllDns \ {DateTimeDn} :
          (remote[d1] # None /\ remote[d2] # None
              /\ remote[d1].name = remote[d2].name) => d1 = d2
    /\ (/\ last.op = "ntp_server_add"
        /\ last.before[NtpDn(last.args.name)] # None
        /\ last.fail = "none")
       => /\ last.raised = "none"
          /\ remote[NtpDn(last.args.name)] = last.ret
          /\ last.ret.name = last.args.name
          /\ last.ret.descr = last.args.descr
          /\ Matches(last.ret, last.args.kwargs)

C7_Witness ==
    /\ last.op = "ntp_server_add"
    /\ last.raised = "none"
    /\ last.before[NtpDn(last.args.name)] # None
    /\ last.before[NtpDn(last.args.name)].descr = "Default NTP"
    /\ last.before[NtpDn(last.args.name)].policy_owner = "local"
    /\ last.args.descr = "Backup NTP"
    /\ last.args.kwargs = Empty
    /\ remote[NtpDn(last.args.name)].descr = "Backup NTP"

(***************************************************************************)
(* C8: when a handle call raises in time_zone_set, ntp_server_add or       *)
(* ntp_server_remove, the call raises to the caller and the raising call   *)
(* is the last handle call made: it is made once, a commit is never        *)
(* followed by another call, and no write follows a failed commit.          *)
(***************************************************************************)
C8_FailurePropagates ==
    (last.op \in {"time_zone_set", "ntp_server_add", "ntp_server_remove"})
    => LET n == Len(last.calls)
       IN  /\ (last.fail # "none" /\ Count(last.fail) > 0)
                 => /\ last.raised = "HandleError"
                    /\ last.calls[n].fn = last.fail
                    /\ Count(last.fail) = 1
           /\ last.raised = "HandleError"
                 => /\ n >= 1
                    /\ last.fail # "none" => last.calls[n].fn = last.fail
                    /\ last.fail = "none" => last.calls[n].fn = "commit"
           /\ Count("commit") <= 1
           /\ \A i \in 1..n : last.calls[i].fn = "commit" => i = n

C8_Witness ==
    /\ last.op = "time_zone_set"
    /\ last.fail = "commit"
    /\ last.raised = "HandleError"
    /\ Len(last.calls) = 3
    /\ last.calls[2].fn = "set_mo"
    /\ last.calls[3].fn = "commit"

(***************************************************************************)
(* C9: ntp_server_add and ntp_server_remove of a name leave every other    *)
(* provider and the DateTimeService as they were; time_zone_set leaves     *)
(* every provider as it was; and no call creates or deletes the            *)
(* DateTimeService, nor hands it to add_mo or remove_mo.                    *)
(***************************************************************************)
C9_Frame ==
    /\ last.op \in {"ntp_server_add", "ntp_server_remove"}
       => \A dn \in AllDns \ {NtpDn(last.args.name)} :
             remote[dn] = last.before[dn]
    /\ last.op = "time_zone_set"
       => \A n \in Names : remote[NtpDn(n)] = last.before[NtpDn(n)]
    /\ last.op # "none"
       => /\ (remote[DateTimeDn] = None) <=> (last.before[DateTimeDn] = None)
          /\ \A i \in 1..Len(last.calls) :
                last.calls[i].fn \in {"add_mo", "remove_mo"}
                => last.calls[i].arg.class = "CommNtpProvider"

C9_Witness ==
    /\ last.op = "ntp_server_add"
    /\ last.raised = "none"
    /\ remote[NtpDn(last.args.name)] # last.before[NtpDn(last.args.name)]
    /\ \E n \in Names \ {last.args.name} : remote[NtpDn(n)] # None
    /\ remote[DateTimeDn].admin_state = "disabled"
    /\ remote[DateTimeDn].timezone = "Asia/Kolkata"

(***************************************************************************)
(* C10: ntp_server_get and ntp_server_exists make one query_dn, of the     *)
(* provider's DN, and no other handle call, and the remote tree is after   *)
(* the call as it was before it.                                            *)
(***************************************************************************)
C10_ReadOnly ==
    (last.op \in {"ntp_server_get", "ntp_server_exists"})
    => /\ last.calls = <<[fn |-> "query_dn", arg |-> NtpDn(last.args.name)]>>
       /\ Writes = 0
       /\ Count("commit") = 0
       /\ remote = last.before

C10_Witness ==
    /\ last.op = "ntp_server_exists"
    /\ last.raised = "none"
    /\ last.before[NtpDn(last.args.name)] # None
    /\ last.ret = <<FALSE, None>>
    /\ remote = last.before

====
